---------------------------- MODULE Spec2Model ----------------------------
(***************************************************************************)
(* Fixed-point trigonometry kernel of Sugarglider (sincostan2.c):          *)
(* fixed_sin_q8_8, fixed_cos_q8_8, fixed_atan2_q8_8, isqrt16 and           *)
(* pythagoras_q88_16bit, modelled with C integer semantics for a target    *)
(* whose int is 32 bits wide and two's complement (uint8_t/int16_t/        *)
(* uint16_t operands are promoted to int; a conversion to a narrower       *)
(* type reduces modulo 2^w).                                               *)
(*                                                                         *)
(* The functions are pure.  A behaviour is one call: Init draws the        *)
(* function and its arguments, the Call action applies the function and    *)
(* records what it returned, which branch it took and whether the call     *)
(* executed an operation whose behaviour C leaves undefined.               *)
(***************************************************************************)
EXTENDS Integers, Sequences, FiniteSets

VARIABLES
    fn,     \* the function called: "sin", "cos", "atan2", "isqrt", "pyth"
    a1,     \* first argument  (angle | y | x of isqrt16 | a_q88)
    a2,     \* second argument (x of atan2 | b_q88), 0 when unused
    pc,     \* "call" before the call, "done" after it returned
    ret,    \* the returned value (0 before the call)
    br,     \* the branch the call took ("none" before the call)
    ub      \* undefined behaviour executed by the call ("none" if none)

vars == <<fn, a1, a2, pc, ret, br, ub>>

---------------------------------------------------------------------------
(* Bounds of the explored input sets.                                      *)

\* atan2 and pythagoras are explored on every value of -MaxSmall..MaxSmall
MaxSmall == 12

\* ... and on multiples of SweepStep up to SweepCount * SweepStep, both signs
SweepCount == 9

---------------------------------------------------------------------------
(* C integer types.                                                        *)

UINT8_MOD == 256

UINT16_MOD == 65536

INT16_MIN == -32768

INT16_MAX == 32767

ToUint8(n) == n % UINT8_MOD

ToUint16(n) == n % UINT16_MOD

\* conversion to int16_t: the value modulo 2^16 read as two's complement
ToInt16(n) ==
    LET m == n % UINT16_MOD
    IN  IF m > INT16_MAX THEN m - UINT16_MOD ELSE m

\* abs() of <stdlib.h> on an int argument (no overflow for int16 values)
abs(n) == IF n < 0 THEN -n ELSE n

\* a | b on non-negative operands
RECURSIVE BitOr(_, _)
BitOr(a, b) ==
    IF a = 0 THEN b
    ELSE IF b = 0 THEN a
    ELSE (IF a % 2 = 1 \/ b % 2 = 1 THEN 1 ELSE 0) + 2 * BitOr(a \div 2, b \div 2)

Uint8 == 0 .. (UINT8_MOD - 1)

Uint16 == 0 .. (UINT16_MOD - 1)

---------------------------------------------------------------------------
(* Sine and cosine.                                                        *)

TABLE_SIZE == 64

sine_table ==
    << 0, 6, 13, 19, 25, 31, 38, 44,
       50, 56, 62, 69, 75, 81, 87, 93,
       99, 105, 111, 117, 122, 128, 134, 140,
       145, 151, 157, 162, 168, 173, 179, 184,
       189, 195, 200, 205, 210, 216, 221, 226,
       231, 236, 240, 245, 250, 255, 260, 264,
       269, 273, 278, 282, 286, 290, 294, 298,
       302, 306, 310, 313, 317, 320, 324, 327 >>

\* sine_table[i] with C's 0-based index
TableAt(i) == sine_table[i + 1]

\* fixed_sin_q8_8 (angle is the value already converted to the parameter's
\* type by the caller); the result is the value and the switch case taken
fixed_sin_q8_8(angle) ==
    LET quadrant == ToUint8(angle \div 64)
        index    == ToUint8(angle % 64)
    IN  CASE quadrant = 0 ->
               [val |-> ToInt16(TableAt(index)), br |-> "case0"]
          [] quadrant = 1 ->
               [val |-> ToInt16(TableAt(TABLE_SIZE - 1 - index)), br |-> "case1"]
          [] quadrant = 2 ->
               [val |-> ToInt16(-TableAt(index)), br |-> "case2"]
          [] quadrant = 3 ->
               [val |-> ToInt16(-TableAt(TABLE_SIZE - 1 - index)), br |-> "case3"]
          [] OTHER ->
               [val |-> 0, br |-> "default"]

\* a cosine that passes angle + 64 on without reducing it to 8 bits
fixed_cos_nowrap(angle) == fixed_sin_q8_8(angle + 64)

\* fixed_cos_q8_8: angle + 64 is computed in int and converted to uint8_t
fixed_cos_q8_8(angle) == fixed_sin_q8_8(ToUint8(angle + 64))

---------------------------------------------------------------------------
(* Arctangent of two arguments.                                            *)

atan2_abs_y(y) == ToInt16(abs(y))

atan2_abs_x(x) == ToInt16(abs(x))

atan2_invert(y, x) == atan2_abs_y(y) > atan2_abs_x(x)

\* the operand shifted left by 8
atan2_dividend(y, x) ==
    IF atan2_invert(y, x) THEN atan2_abs_x(x) ELSE atan2_abs_y(y)

\* the operand divided by
atan2_divisor(y, x) ==
    IF atan2_invert(y, x) THEN atan2_abs_y(y) ELSE atan2_abs_x(x)

\* z_q8_8 where the shift and the division are defined (dividend >= 0, so
\* C's truncating division is \div)
atan2_z_q8_8(y, x) ==
    ToInt16((atan2_dividend(y, x) * 256) \div atan2_divisor(y, x))

\* base_angle after the optional reflection
atan2_base_angle(y, x) ==
    LET base_angle == ToUint8(atan2_z_q8_8(y, x) \div 4)
    IN  IF atan2_invert(y, x) THEN ToUint8(64 - base_angle) ELSE base_angle

\* a quadrant correction with the second quadrant's sign slipped
atan2_quadrant_slip(y, x, base_angle) ==
    IF x >= 0 /\ y >= 0 THEN ToUint8(base_angle)
    ELSE IF x < 0 /\ y >= 0 THEN ToUint8(128 + base_angle)
    ELSE IF x < 0 /\ y < 0 THEN ToUint8(128 + base_angle)
    ELSE ToUint8(256 - base_angle)

\* the final angle by the signs of x and y, converted to the uint8_t result
atan2_quadrant(y, x, base_angle) ==
    IF x >= 0 /\ y >= 0 THEN ToUint8(base_angle)
    ELSE IF x < 0 /\ y >= 0 THEN ToUint8(128 - base_angle)
    ELSE IF x < 0 /\ y < 0 THEN ToUint8(128 + base_angle)
    ELSE ToUint8(256 - base_angle)

\* fixed_atan2_q8_8: the set of outcomes of the call.  A division by zero
\* and a left shift of a negative value are undefined: any angle may come
\* back (or the call may trap), which ub records.
fixed_atan2_q8_8(y, x) ==
    IF x = 0 /\ y = 0
    THEN {[val |-> 0, br |-> "zero", ub |-> "none"]}
    ELSE LET branch == IF atan2_invert(y, x) THEN "inverted" ELSE "direct"
         IN  IF atan2_divisor(y, x) = 0
             THEN {[val |-> r, br |-> branch, ub |-> "div_by_zero"] : r \in Uint8}
             ELSE IF atan2_dividend(y, x) < 0
             THEN {[val |-> r, br |-> branch, ub |-> "shift_negative"] : r \in Uint8}
             ELSE {[val |-> atan2_quadrant(y, x, atan2_base_angle(y, x)),
                    br  |-> branch, ub |-> "none"]}

---------------------------------------------------------------------------
(* Integer square root.                                                    *)

\* a square truncated to 16 bits before the comparison
temp_sq_u16(temp) == ToUint16(temp * temp)

\* temp * temp: both operands promoted to int, the product compared as int
temp_sq(temp) == temp * temp

RECURSIVE isqrt16_loop(_, _, _)
isqrt16_loop(x, res, bit) ==
    IF bit > 0
    THEN LET temp == ToUint16(BitOr(res, bit))
         IN  isqrt16_loop(x, IF temp_sq(temp) <= x THEN temp ELSE res,
                          ToUint16(bit \div 2))
    ELSE res

isqrt16(x) == isqrt16_loop(x, 0, 16384)

---------------------------------------------------------------------------
(* Planar magnitude.                                                       *)

\* a shifted square that saturates at 65535 instead of wrapping
pyth_sq_saturating(v) ==
    LET s == (v * v) \div 256
    IN  IF s > UINT16_MOD - 1 THEN UINT16_MOD - 1 ELSE s

\* ((uint32_t)v * v) >> 8 stored in a uint16_t.  v is a uint16_t, so the
\* 32-bit product v * v <= 65535^2 < 2^32 is exact; only the store truncates
pyth_sq(v) == ToUint16((v * v) \div 256)

\* a rescale by the full 8 bits
pyth_rescale8(sqrt_result) == ToInt16(sqrt_result * 256)

\* (int16_t)(sqrt_result << 4)
pyth_rescale(sqrt_result) == ToInt16(sqrt_result * 16)

pythagoras_q88_16bit(a_q88, b_q88) ==
    LET a   == ToUint16(IF a_q88 < 0 THEN -a_q88 ELSE a_q88)
        b   == ToUint16(IF b_q88 < 0 THEN -b_q88 ELSE b_q88)
        a2q == pyth_sq(a)
        b2q == pyth_sq(b)
        sum == ToUint16(a2q + b2q)
        sqrt_result == isqrt16(sum)
    IN  pyth_rescale(sqrt_result)

---------------------------------------------------------------------------
(* Explored inputs.                                                        *)

Int16 == INT16_MIN .. INT16_MAX

\* magnitudes around the places where the code changes behaviour: the
\* 3-4-5 triple, the wrap of the shifted square at 4096, the wrap of the
\* sum at 2896/2897, and the ends of the int16 range
EdgeMagnitudes ==
    {99, 100, 101, 255, 256, 257, 768, 1024, 2896, 2897, 3000,
     4095, 4096, 4097, 16383, 16384, 32766, 32767, 32768}

SweepStep == 331

SweepMagnitudes == {SweepStep * k : k \in 1 .. SweepCount}

Int16Samples ==
    {v \in (-MaxSmall .. MaxSmall)
           \cup {m : m \in EdgeMagnitudes \cup SweepMagnitudes}
           \cup {-m : m \in EdgeMagnitudes \cup SweepMagnitudes} : v \in Int16}

---------------------------------------------------------------------------
(* The state machine: one call.                                            *)

Fresh == pc = "call" /\ ret = 0 /\ br = "none" /\ ub = "none"

InitTrig ==
    /\ fn \in {"sin", "cos"}
    /\ a1 \in Uint8
    /\ a2 = 0
    /\ Fresh

InitAtan2 ==
    /\ fn = "atan2"
    /\ a1 \in Int16Samples
    /\ a2 \in Int16Samples
    /\ Fresh

InitSqrt ==
    /\ fn = "isqrt"
    /\ a1 \in Uint16
    /\ a2 = 0
    /\ Fresh

InitPyth ==
    /\ fn = "pyth"
    /\ a1 \in Int16Samples
    /\ a2 \in Int16Samples
    /\ Fresh

Init == InitTrig \/ InitAtan2 \/ InitSqrt \/ InitPyth

CallSin ==
    /\ pc = "call" /\ fn = "sin"
    /\ LET r == fixed_sin_q8_8(a1)
       IN  ret' = r.val /\ br' = r.br
    /\ pc' = "done"
    /\ UNCHANGED <<fn, a1, a2, ub>>

CallCos ==
    /\ pc = "call" /\ fn = "cos"
    /\ LET r == fixed_cos_q8_8(a1)
       IN  ret' = r.val /\ br' = r.br
    /\ pc' = "done"
    /\ UNCHANGED <<fn, a1, a2, ub>>

CallAtan2 ==
    /\ pc = "call" /\ fn = "atan2"
    /\ \E r \in fixed_atan2_q8_8(a1, a2) :
           ret' = r.val /\ br' = r.br /\ ub' = r.ub
    /\ pc' = "done"
    /\ UNCHANGED <<fn, a1, a2>>

CallIsqrt ==
    /\ pc = "call" /\ fn = "isqrt"
    /\ ret' = isqrt16(a1)
    /\ br' = "loop"
    /\ pc' = "done"
    /\ UNCHANGED <<fn, a1, a2, ub>>

CallPyth ==
    /\ pc = "call" /\ fn = "pyth"
    /\ ret' = pythagoras_q88_16bit(a1, a2)
    /\ br' = "sqrt"
    /\ pc' = "done"
    /\ UNCHANGED <<fn, a1, a2, ub>>

NextTrig == CallSin \/ CallCos

Next == CallSin \/ CallCos \/ CallAtan2 \/ CallIsqrt \/ CallPyth

Spec == Init /\ [][Next]_vars

SpecTrig == InitTrig /\ [][NextTrig]_vars

SpecAtan2 == InitAtan2 /\ [][CallAtan2]_vars

SpecSqrt == InitSqrt /\ [][CallIsqrt]_vars

SpecPyth == InitPyth /\ [][CallPyth]_vars

Returned(f) == pc = "done" /\ fn = f

---------------------------------------------------------------------------
(* Properties.                                                             *)

NonZeroPair == ~(a1 = 0 /\ a2 = 0)

\* the sign quadrant of (y, x) = (a1, a2)
SignQuadrant ==
    IF a2 >= 0 /\ a1 >= 0 THEN 0
    ELSE IF a2 < 0 /\ a1 >= 0 THEN 1
    ELSE IF a2 < 0 /\ a1 < 0 THEN 2
    ELSE 3

\* C1: fixed_sin_q8_8 returns exactly 0 for angle 0, exactly 256 for angle
\* 64 and exactly -256 for angle 192, and 256 is the maximum over all 256
\* angles.
C1_SineCardinalValues ==
    Returned("sin") =>
        /\ (a1 = 0 => ret = 0)
        /\ (a1 = 64 => ret = 256)
        /\ (a1 = 192 => ret = -256)
        /\ ret <= 256

\* C2: for every angle a, sin(a)^2 + cos(a)^2 differs from 65536 by at
\* most 16, with the table values as written in the source.
C2_PythagoreanIdentity ==
    Returned("cos") =>
        abs(fixed_sin_q8_8(a1).val * fixed_sin_q8_8(a1).val + ret * ret - 65536) <= 16

\* C3: fixed_atan2_q8_8 never divides by zero: it returns 0 for (0, 0),
\* and whenever an input is nonzero the divisor chosen (abs_y in the
\* inverted branch, abs_x otherwise, as stored in int16_t) is nonzero.
C3_NoDivisionByZero ==
    Returned("atan2") =>
        /\ (~NonZeroPair => ret = 0 /\ br = "zero")
        /\ (NonZeroPair => atan2_divisor(a1, a2) # 0 /\ ub # "div_by_zero")

\* C4 as stated: for every int16 pair other than (0, 0) the returned angle
\* lies in the half-open range [q*64, q*64 + 64) of the sign quadrant q.
\* It is stated here for the calls whose behaviour is defined and whose
\* inputs are off the diagonals, so that a violation owes nothing to the
\* division of C3 or to the diagonal angle of C5.
C4_HalfOpenQuadrant ==
    (Returned("atan2") /\ NonZeroPair /\ ub = "none" /\ abs(a1) # abs(a2)) =>
        ret \in (SignQuadrant * 64) .. (SignQuadrant * 64 + 63)

\* C4 amended: for every pair other than (0, 0) whose inputs both lie in
\* -32767..32767, the returned angle lies in the closed range
\* [q*64, q*64 + 64] of the sign quadrant q, reduced modulo 256 (the upper
\* end of quadrant 3 comes back as 0).
C4_ClosedQuadrant ==
    (Returned("atan2") /\ NonZeroPair /\ a1 # INT16_MIN /\ a2 # INT16_MIN) =>
        \E k \in (SignQuadrant * 64) .. (SignQuadrant * 64 + 64) :
            ret = k % 256

\* C4 witness: a fourth-quadrant pair close to the positive x axis returns
\* 256 - 0 reduced to 0, the closed upper end of quadrant 3.
C4_Witness ==
    Returned("atan2") /\ a1 = -1 /\ a2 = 100 /\ ret = 0 /\ ub = "none"

\* C5: on the diagonals |x| = |y| # 0 (magnitudes up to 32767) the returned
\* angle is within 4 units of the diagonal of the sign quadrant (32, 96,
\* 160, 224), and the octant angle ratio/4 before reflection is at most 32.
C5_DiagonalDirection ==
    (Returned("atan2") /\ abs(a1) = abs(a2) /\ a1 # 0 /\ abs(a1) <= INT16_MAX) =>
        /\ abs(ret - (SignQuadrant * 64 + 32)) <= 4
        /\ atan2_z_q8_8(a1, a2) \div 4 <= 32

\* C6: on the axes the exact axis angle is returned for every int16
\* magnitude down to -32768: 64 for (y > 0, 0), 192 for (y < 0, 0), 0 for
\* (0, x > 0) and 128 for (0, x < 0).
C6_AxisAngles ==
    Returned("atan2") =>
        /\ (a2 = 0 /\ a1 > 0 => ret = 64)
        /\ (a2 = 0 /\ a1 < 0 => ret = 192)
        /\ (a1 = 0 /\ a2 > 0 => ret = 0)
        /\ (a1 = 0 /\ a2 < 0 => ret = 128)

\* C7: for every x in 0..65535, isqrt16(x) = floor(sqrt(x)): r*r <= x <
\* (r+1)*(r+1), with isqrt16(0) = 0 and isqrt16(65535) = 255 (the tentative
\* square is compared untruncated).
C7_ExactIntegerSqrt ==
    Returned("isqrt") =>
        /\ ret * ret <= a1
        /\ a1 < (ret + 1) * (ret + 1)
        /\ (a1 = 0 => ret = 0)
        /\ (a1 = 65535 => ret = 255)

C7_Witness == Returned("isqrt") /\ a1 = 65535 /\ ret = 255

\* the two shifted squares as mathematical integers, before any truncation
ShiftedSquares == (a1 * a1) \div 256 + (a2 * a2) \div 256

\* C8: where floor(a^2/256) + floor(b^2/256) <= 65535, pythagoras returns
\* r in the inputs' scale with r*r <= a*a + b*b < (r+16)*(r+16) + 256, and
\* pythagoras(768, 1024) = 1280.
C8_MagnitudeFromBelow ==
    (Returned("pyth") /\ ShiftedSquares <= 65535) =>
        /\ ret * ret <= a1 * a1 + a2 * a2
        /\ a1 * a1 + a2 * a2 < (ret + 16) * (ret + 16) + 256
        /\ (a1 = 768 /\ a2 = 1024 => ret = 1280)

C8_Witness == Returned("pyth") /\ a1 = 768 /\ a2 = 1024 /\ ret = 1280

\* C9: for every int16 pair, -32768 included, pythagoras returns
\* 16 * isqrt16((floor(a^2/256) + floor(b^2/256)) mod 65536): overflow
\* wraps modulo 2^16; pythagoras(4095, 0) = 4080, pythagoras(4096, 0) = 0,
\* and the result is a non-negative multiple of 16 no greater than 4080.
C9_OverflowWraps ==
    Returned("pyth") =>
        /\ ret = 16 * isqrt16(ShiftedSquares % 65536)
        /\ ret % 16 = 0
        /\ ret >= 0
        /\ ret <= 4080
        /\ (a1 = 4095 /\ a2 = 0 => ret = 4080)
        /\ (a1 = 4096 /\ a2 = 0 => ret = 0)

\* C9 witness: the most negative input next to an in-range one; the square
\* of 32768 wraps to 0 and only the other input is left
C9_Witness == Returned("pyth") /\ a1 = INT16_MIN /\ a2 = 768 /\ ret = 768

\* C10: for every angle a, fixed_cos_q8_8(a) = fixed_sin_q8_8((a + 64) mod
\* 256); for a >= 192 the sum wraps into quadrant 0, and no angle reaches
\* the switch's default branch.
C10_CosineIsShiftedSine ==
    Returned("cos") =>
        /\ ret = fixed_sin_q8_8((a1 + 64) % 256).val
        /\ br # "default"
        /\ (a1 >= 192 => br = "case0")

C10_Witness == Returned("cos") /\ a1 = 200 /\ br = "case0" /\ ret = 50

=============================================================================
